---- MODULE Spec2Model ----
(***************************************************************************)
(* Model of misc/dom-gen/run.py: the lexer `lex` and the recursive-descent *)
(* parser `parse` for a subset of TypeScript declaration files.            *)
(*                                                                         *)
(* Source text is a TLA+ string; offsets are 0-based as in the Python      *)
(* code.  An Optional[X] value is a sequence of length at most one:        *)
(* None is <<>> and a present value v is <<v>>.                            *)
(***************************************************************************)
EXTENDS Integers, Sequences, FiniteSets, TLC

VARIABLES s, pc, tokens, i, decls, last_comment, line

vars == <<s, pc, tokens, i, decls, last_comment, line>>

None == <<>>

Some(v) == <<v>>

Min(a, b) == IF a < b THEN a ELSE b

----------------------------------------------------------------------------
(* Python string primitives used by the code. *)

\* str[p], for 0 <= p < len(str)
CharAt(str, p) == SubSeq(str, p + 1, p + 1)

\* str[a:b]
Slice(str, a, b) == SubSeq(str, Min(a, Len(str)) + 1, Min(b, Len(str)))

\* str.startswith(prefix, p)
startswith(str, prefix, p) ==
    /\ p + Len(prefix) <= Len(str)
    /\ SubSeq(str, p + 1, p + Len(prefix)) = prefix

\* str.count('\n', 0, end)
count(str, end) ==
    Cardinality({p \in 0..(Min(end, Len(str)) - 1) : CharAt(str, p) = "\n"})

\* the line number every diagnostic computes: s.count('\n', 0, pos) + 1
lineno(str, pos) == count(str, pos) + 1

isspace(c) == c \in {" ", "\n", "\t", "\r"}

isdigit(c) == c \in {"0", "1", "2", "3", "4", "5", "6", "7", "8", "9"}

isalpha(c) ==
    c \in {"a", "b", "c", "d", "e", "f", "g", "h", "i", "j", "k", "l", "m",
           "n", "o", "p", "q", "r", "s", "t", "u", "v", "w", "x", "y", "z",
           "A", "B", "C", "D", "E", "F", "G", "H", "I", "J", "K", "L", "M",
           "N", "O", "P", "Q", "R", "S", "T", "U", "V", "W", "X", "Y", "Z"}

isalnum(c) == isalpha(c) \/ isdigit(c)

----------------------------------------------------------------------------
(* The symbol catalog and its ordering. *)

SYMBOLS ==
    {"(", ")", "[", "]", "{", "}", "<", ">",
     "=",
     "+", "-",
     "|", "&", "||", "&&",
     "...", ".", ",", ":", ";",
     "=>", "?"}

\* code point of each character that occurs in a symbol
ord(c) ==
    CASE c = "&" -> 38 [] c = "(" -> 40 [] c = ")" -> 41 [] c = "+" -> 43
      [] c = "," -> 44 [] c = "-" -> 45 [] c = "." -> 46 [] c = ":" -> 58
      [] c = ";" -> 59 [] c = "<" -> 60 [] c = "=" -> 61 [] c = ">" -> 62
      [] c = "?" -> 63 [] c = "[" -> 91 [] c = "]" -> 93 [] c = "{" -> 123
      [] c = "|" -> 124 [] c = "}" -> 125

\* Python's str ordering: a < b, lexicographic by code point
RECURSIVE strless(_, _)
strless(a, b) ==
    IF b = "" THEN FALSE
    ELSE IF a = "" THEN TRUE
    ELSE IF CharAt(a, 0) # CharAt(b, 0) THEN ord(CharAt(a, 0)) < ord(CharAt(b, 0))
    ELSE strless(Tail(a), Tail(b))

\* sorted(set, reverse=True)
RECURSIVE sortedReverse(_)
sortedReverse(set) ==
    IF set = {} THEN <<>>
    ELSE LET top == CHOOSE x \in set : \A y \in set \ {x} : strless(y, x)
         IN  <<top>> \o sortedReverse(set \ {top})

SYMBOLS_REVERSE_SORTED == sortedReverse(SYMBOLS)

----------------------------------------------------------------------------
(* lex *)

\* a lexer that records where each token ends instead of where it starts
TokenAtEnd(pos, type, value) == [i |-> pos + Len(value), type |-> type, value |-> value]

Token(pos, type, value) == [i |-> pos, type |-> type, value |-> value]

\* `while i < len(s) and s[i] != '\n': i += 1`
RECURSIVE lexSkipLine(_, _)
lexSkipLine(str, p) ==
    IF p < Len(str) /\ CharAt(str, p) # "\n" THEN lexSkipLine(str, p + 1) ELSE p

\* `while i < len(s) and not s.startswith('*/', i): i += 1`
RECURSIVE lexSkipToCommentEnd(_, _)
lexSkipToCommentEnd(str, p) ==
    IF p < Len(str) /\ ~startswith(str, "*/", p)
    THEN lexSkipToCommentEnd(str, p + 1) ELSE p

\* the inner `while i < len(s)` loop that skips whitespace and comments
RECURSIVE lexSkipTrivia(_, _)
lexSkipTrivia(str, p) ==
    IF ~(p < Len(str)) THEN p
    ELSE IF isspace(CharAt(str, p)) THEN lexSkipTrivia(str, p + 1)
    ELSE IF startswith(str, "//", p) THEN lexSkipTrivia(str, lexSkipLine(str, p))
    ELSE IF \/ startswith(str, "/**/", p)
            \/ (startswith(str, "/*", p) /\ ~startswith(str, "/**", p))
         THEN lexSkipTrivia(str, lexSkipToCommentEnd(str, p + 2) + 2)
    ELSE p

\* `while i < len(s) and s[i].isdigit(): i += 1`
RECURSIVE lexDigits(_, _)
lexDigits(str, p) ==
    IF p < Len(str) /\ isdigit(CharAt(str, p)) THEN lexDigits(str, p + 1) ELSE p

\* the NUMBER branch: the offset just past the number starting at p
lexNumber(str, p) ==
    LET p1 == IF startswith(str, "0x", p) THEN p + 2 ELSE p
        p2 == lexDigits(str, p1)
        p3 == IF p2 < Len(str) /\ CharAt(str, p2) = "." THEN p2 + 1 ELSE p2
    IN  lexDigits(str, p3)

\* `while i < len(s) and (s[i].isalnum() or s[i] == '_'): i += 1`
RECURSIVE lexName(_, _)
lexName(str, p) ==
    IF p < Len(str) /\ (isalnum(CharAt(str, p)) \/ CharAt(str, p) = "_")
    THEN lexName(str, p + 1) ELSE p

\* the body scan of a string literal opened by quote c; p is past the opening quote
RECURSIVE lexString(_, _, _)
lexString(str, p, c) ==
    IF p < Len(str) /\ CharAt(str, p) # c
    THEN lexString(str, (IF CharAt(str, p) = "\\" THEN p + 1 ELSE p) + 1, c)
    ELSE p + 1

\* a symbol loop that runs over the catalog in ascending order: the first
\* match is then the shortest symbol
lexSymbolAscending(str, p) ==
    LET hits == {k \in 1..Len(SYMBOLS_REVERSE_SORTED) :
                    startswith(str, SYMBOLS_REVERSE_SORTED[k], p)}
    IN  IF hits = {} THEN None
        ELSE Some(SYMBOLS_REVERSE_SORTED[CHOOSE k \in hits : \A m \in hits : k >= m])

\* `for symbol in SYMBOLS_REVERSE_SORTED: if s.startswith(symbol, i)`:
\* the first matching symbol, or None
lexSymbol(str, p) ==
    LET hits == {k \in 1..Len(SYMBOLS_REVERSE_SORTED) :
                    startswith(str, SYMBOLS_REVERSE_SORTED[k], p)}
    IN  IF hits = {} THEN None
        ELSE Some(SYMBOLS_REVERSE_SORTED[CHOOSE k \in hits : \A m \in hits : k <= m])

\* the outer `while True` loop; the result is the token list, or the line of
\* the raised "Unrecognized token" exception
\* (of the three quote characters of the STRING branch, the double and the
\* single quote are modelled)
RECURSIVE lexLoop(_, _, _)
lexLoop(str, p0, toks) ==
    LET p == lexSkipTrivia(str, p0)
    IN  IF p >= Len(str)
        THEN [ok |-> TRUE, tokens |-> Append(toks, Token(Len(str), "EOF", "")), line |-> 0]
        ELSE IF startswith(str, "/**", p)
        THEN LET e == lexSkipToCommentEnd(str, p + 2) + 2
             IN  lexLoop(str, e, Append(toks, Token(p, "COMMENT", Slice(str, p + 3, e - 2))))
        ELSE LET c == CharAt(str, p)
             IN  IF isdigit(c)
                 THEN LET e == lexNumber(str, p)
                      IN  lexLoop(str, e, Append(toks, Token(p, "NUMBER", Slice(str, p, e))))
                 ELSE IF isalpha(c) \/ c = "_"
                 THEN LET e == lexName(str, p)
                      IN  lexLoop(str, e, Append(toks, Token(p, "NAME", Slice(str, p, e))))
                 ELSE IF c \in {"\"", "'"}
                 THEN LET e == lexString(str, p + 1, c)
                      IN  lexLoop(str, e, Append(toks, Token(p, "STRING", Slice(str, p, e))))
                 ELSE LET sym == lexSymbol(str, p)
                      IN  IF sym # None
                          THEN lexLoop(str, p + Len(sym[1]), Append(toks, Token(p, sym[1], sym[1])))
                          ELSE [ok |-> FALSE, tokens |-> toks, line |-> lineno(str, p)]

lex(str) == lexLoop(str, 0, <<>>)

----------------------------------------------------------------------------
(* parse: the nested helpers.  They read the enclosing `tokens` and `s`;   *)
(* the cursor `i` is passed in and returned.  A call either returns        *)
(* (k = "ok", with the new cursor and the value), raises the diagnosed     *)
(* Exception (k = "error", with its line), or dies of an IndexError on     *)
(* tokens[i] with i >= len(tokens) (k = "crash"); in both failures i is    *)
(* where the cursor was left.                                              *)

Ok(c, v) == [k |-> "ok", i |-> c, v |-> v, line |-> 0]

Error(ln, c) == [k |-> "error", i |-> c, v |-> None, line |-> ln]

Crash(c) == [k |-> "crash", i |-> c, v |-> None, line |-> 0]

\* sequencing of two statements: an exception in the first one propagates
Then(r, K(_)) == IF r.k = "ok" THEN K(r) ELSE r

\* tokens[c]
tok(c) == tokens[c + 1]

\* the raise statements: `line = s.count('\n', 0, tokens[i].i) + 1; raise Exception(...)`
raiseAt(c) == IF c < Len(tokens) THEN Error(lineno(s, tok(c).i), c) ELSE Crash(c)

\* at(type)
at(c, type) == c < Len(tokens) /\ tok(c).type = type

\* at(type, value)
atValue(c, type, value) == c < Len(tokens) /\ tok(c).type = type /\ tok(c).value = value

\* next(): `i += 1; return tokens[i - 1]`
next(c) == IF c < Len(tokens) THEN Ok(c + 1, tok(c)) ELSE Crash(c + 1)

\* expect(type): consume(type) or raise
expect(c, type) == IF at(c, type) THEN Ok(c + 1, tok(c)) ELSE raiseAt(c)

\* expect(type, value)
expectValue(c, type, value) ==
    IF atValue(c, type, value) THEN Ok(c + 1, tok(c)) ELSE raiseAt(c)

\* the cursor after consume(type)
consume(c, type) == IF at(c, type) THEN c + 1 ELSE c

\* the cursor after consume(type, value)
consumeValue(c, type, value) == IF atValue(c, type, value) THEN c + 1 ELSE c

atOpener(c) == c < Len(tokens) /\ tok(c).type \in {"(", "{", "[", "<"}

atCloser(c) == c < Len(tokens) /\ tok(c).type \in {")", "}", "]", ">"}

\* the `while i < len(tokens) and depth > 0` loop of skip()
RECURSIVE skipLoop(_, _)
skipLoop(c, depth) ==
    IF c < Len(tokens) /\ depth > 0
    THEN skipLoop(c + 1, IF atOpener(c) THEN depth + 1
                         ELSE IF atCloser(c) THEN depth - 1
                         ELSE depth)
    ELSE c

\* a skip() that never matches brackets: it always steps over one token
skipOne(c) == next(c)

skip(c) == IF atOpener(c) THEN Ok(skipLoop(c + 1, 1), None) ELSE next(c)

\* the loop of parseTypeParameters(): only < and > are counted
RECURSIVE typeParametersLoop(_, _)
typeParametersLoop(c, depth) ==
    IF c < Len(tokens) /\ depth > 0
    THEN typeParametersLoop(c + 1, IF at(c, "<") THEN depth + 1
                                   ELSE IF at(c, ">") THEN depth - 1
                                   ELSE depth)
    ELSE c

parseTypeParameters(c) ==
    Then(expect(c, "<"), LAMBDA open : Ok(typeParametersLoop(open.i, 1), None))

\* a lookahead that forgets `i = saved`: the cursor stays after the group
atFunctionTypeNoRestore(c) ==
    IF ~at(c, "(") THEN Ok(c, FALSE) ELSE Ok(skip(c).i, at(skip(c).i, "=>"))

\* atFunctionType(): the cursor it leaves (i, after `i = saved`) and its answer (v)
atFunctionType(c) ==
    IF ~at(c, "(") THEN Ok(c, FALSE) ELSE Ok(c, at(skip(c).i, "=>"))

----------------------------------------------------------------------------
(* Type expressions. *)

TypeExpression(pos, name, args) == [i |-> pos, name |-> name, args |-> args]

\* `te.args or []`
argsOrEmpty(te) == IF te.args = None THEN <<>> ELSE te.args[1]

\* `args = (te.args or []) if te.name == tag else [te]`
operandArgs(te, tag) == IF te.name = tag THEN argsOrEmpty(te) ELSE <<te>>

\* the `|` and `&` branches: flatten both operands into one node named tag
combine(te, rhs, tag) ==
    TypeExpression(te.i, tag, Some(operandArgs(te, tag) \o operandArgs(rhs, tag)))

\* a parameter whose `?` flag is tied to its `...` flag
ParameterLinked(pos, isVariadic, name, isOptional, type) ==
    [i |-> pos, isVariadic |-> isVariadic, name |-> name,
     isOptional |-> isVariadic, type |-> type]

Parameter(pos, isVariadic, name, isOptional, type) ==
    [i |-> pos, isVariadic |-> isVariadic, name |-> name,
     isOptional |-> isOptional, type |-> type]

RECURSIVE parsePrimaryTypeExpression(_)
RECURSIVE parseTypeExpression(_)
RECURSIVE typeExpressionLoop(_, _)
RECURSIVE tupleLoop(_, _)
RECURSIVE parseParameter(_)
RECURSIVE parametersLoop(_, _)
RECURSIVE parseParameters(_)

\* the `[]` and `[Index]` suffixes alone: the loop of parseTypeExpression
\* without its `|` and `&` branches
RECURSIVE postfixLoop(_, _)
postfixLoop(c, te) ==
    IF at(c, "[")
    THEN IF at(c + 1, "]")
         THEN postfixLoop(c + 2, TypeExpression(te.i, "ARRAY", Some(<<te>>)))
         ELSE Then(parseTypeExpression(c + 1), LAMBDA index :
              Then(expect(index.i, "]"), LAMBDA close :
              postfixLoop(close.i, TypeExpression(te.i, "SUBSCRIPT", Some(<<te, index.v>>)))))
    ELSE Ok(c, te)

\* a right operand that is only the next postfix-level operand: this makes
\* `|` and `&` group to the left
parseOperandLeft(c) ==
    Then(parsePrimaryTypeExpression(c), LAMBDA te : postfixLoop(te.i, te.v))

\* a right operand that is only the next primary: a following `[]` then
\* applies to the whole combination
parseOperandPrimary(c) == parsePrimaryTypeExpression(c)

\* the right operand of `|` / `&`: `rhs = parseTypeExpression()`
parseOperand(c) == parseTypeExpression(c)

\* `kind = tokens[i].type` of the typeof/keyof branch; c is on the keyword
typeQueryKind(c) == tok(c).type

\* `if consume('.'): name += expect('NAME').value`
typeQueryMember(name, m) == name \o m

\* the `typeof X` / `keyof X` branch; c is on the keyword
parseTypeQuery(c) ==
    Then(expect(c + 1, "NAME"), LAMBDA x :
    IF at(x.i, ".")
    THEN Then(expect(x.i + 1, "NAME"), LAMBDA m :
         Ok(m.i, TypeExpression(tok(c).i,
                                typeQueryMember(typeQueryKind(c) \o "(" \o x.v.value \o ")",
                                                m.v.value),
                                None)))
    ELSE Ok(x.i, TypeExpression(tok(c).i, typeQueryKind(c) \o "(" \o x.v.value \o ")", None)))

\* `while not at('EOF') and not at(']')` of the tuple branch
tupleLoop(c, args) ==
    IF ~at(c, "EOF") /\ ~at(c, "]")
    THEN Then(parseTypeExpression(c), LAMBDA e :
         IF at(e.i, ",") THEN tupleLoop(e.i + 1, Append(args, e.v))
         ELSE Ok(e.i, Append(args, e.v)))
    ELSE Ok(c, args)

\* the `{ ... }` branch: c is on the `{` and e is the cursor after skip()
unknownType(c, e) ==
    IF e < Len(tokens)
    THEN Ok(e, TypeExpression(tok(c).i,
                              "UNKNOWN(" \o Slice(s, tok(c).i, tok(e).i) \o ")", None))
    ELSE Crash(e)

\* the branches of parsePrimaryTypeExpression from `if atFunctionType():` on;
\* c is the cursor atFunctionType() left and arrow is its answer
primaryAfterLookahead(c, arrow) ==
    IF arrow
    THEN Then(parseParameters(c), LAMBDA ps :
         Then(expect(ps.i, "=>"), LAMBDA after :
         Then(parseTypeExpression(after.i), LAMBDA returns :
         Ok(returns.i,
            TypeExpression(tok(c).i, "Function(UnknownArgs)", Some(<<returns.v>>))))))
    ELSE IF at(c, "{")
    THEN unknownType(c, skip(c).i)
    ELSE IF at(c, "(")
    THEN Then(parseTypeExpression(c + 1), LAMBDA te :
         Then(expect(te.i, ")"), LAMBDA close :
         Ok(close.i, te.v)))
    ELSE raiseAt(c)

parsePrimaryTypeExpression(c) ==
    IF at(c, "STRING")
    THEN Ok(c + 1, TypeExpression(tok(c).i, tok(c).value, None))
    ELSE IF atValue(c, "NAME", "typeof") \/ atValue(c, "NAME", "keyof")
    THEN parseTypeQuery(c)
    ELSE IF at(c, "NAME")
    THEN Ok(IF at(c + 1, "<") THEN skip(c + 1).i ELSE c + 1,
            TypeExpression(tok(c).i, tok(c).value, None))
    ELSE IF at(c, "[")
    THEN Then(tupleLoop(c + 1, <<>>), LAMBDA l :
         Then(expect(l.i, "]"), LAMBDA close :
         Ok(close.i, TypeExpression(tok(c).i, "TUPLE", Some(l.v)))))
    ELSE Then(atFunctionType(c), LAMBDA la : primaryAfterLookahead(la.i, la.v))

\* the `while True` loop of parseTypeExpression
typeExpressionLoop(c, te) ==
    IF at(c, "[")
    THEN IF at(c + 1, "]")
         THEN typeExpressionLoop(c + 2, TypeExpression(te.i, "ARRAY", Some(<<te>>)))
         ELSE Then(parseTypeExpression(c + 1), LAMBDA index :
              Then(expect(index.i, "]"), LAMBDA close :
              typeExpressionLoop(close.i,
                                 TypeExpression(te.i, "SUBSCRIPT", Some(<<te, index.v>>)))))
    ELSE IF at(c, "|") \/ at(c, "&")
    THEN Then(parseOperand(c + 1), LAMBDA rhs :
         typeExpressionLoop(rhs.i,
                            combine(te, rhs.v, IF at(c, "|") THEN "Union" ELSE "Intersect")))
    ELSE Ok(c, te)

parseTypeExpression(c) ==
    Then(parsePrimaryTypeExpression(c), LAMBDA te : typeExpressionLoop(te.i, te.v))

parseParameter(c) ==
    IF ~(c < Len(tokens)) THEN Crash(c)
    ELSE Then(expect(consume(c, "..."), "NAME"), LAMBDA name :
         Then(expect(consume(name.i, "?"), ":"), LAMBDA colon :
         Then(parseTypeExpression(colon.i), LAMBDA type :
         Ok(type.i, Parameter(tok(c).i, at(c, "..."), name.v.value,
                              at(name.i, "?"), type.v)))))

\* `while not at('EOF') and not at(')')` of parseParameters
parametersLoop(c, ret) ==
    IF ~at(c, "EOF") /\ ~at(c, ")")
    THEN Then(parseParameter(c), LAMBDA q :
         IF at(q.i, ",") THEN parametersLoop(q.i + 1, Append(ret, q.v))
         ELSE Ok(q.i, Append(ret, q.v)))
    ELSE Ok(c, ret)

parseParameters(c) ==
    Then(expect(c, "("), LAMBDA open :
    Then(parametersLoop(open.i, <<>>), LAMBDA l :
    Then(expect(l.i, ")"), LAMBDA close :
    Ok(close.i, l.v))))

----------------------------------------------------------------------------
(* Declarations. *)

InterfaceDefinition(pos, comment, name, extends) ==
    [kind |-> "InterfaceDefinition", i |-> pos, comment |-> comment,
     name |-> name, extends |-> extends]

TypeAlias(pos, comment, name, type) ==
    [kind |-> "TypeAlias", i |-> pos, comment |-> comment, name |-> name, type |-> type]

VariableDeclaration(pos, comment, name, type) ==
    [kind |-> "VariableDeclaration", i |-> pos, comment |-> comment,
     name |-> name, type |-> type]

NamespaceDeclaration(pos, comment, name, declarations) ==
    [kind |-> "NamespaceDeclaration", i |-> pos, comment |-> comment,
     name |-> name, declarations |-> declarations]

FunctionDeclaration(pos, comment, name, parameters, returnType) ==
    [kind |-> "FunctionDeclaration", i |-> pos, comment |-> comment,
     name |-> name, parameters |-> parameters, returnType |-> returnType]

\* `if at('<'): skip()`: the cursor after it
skipTypeParameters(c) == IF at(c, "<") THEN skip(c).i ELSE c

\* lc is the value of `last_comment` when the declaration is parsed
parseTypeAlias(c, lc) ==
    Then(expectValue(c, "NAME", "type"), LAMBDA kw :
    Then(expect(kw.i, "NAME"), LAMBDA name :
    Then(expect(skipTypeParameters(name.i), "="), LAMBDA eq :
    Then(parseTypeExpression(eq.i), LAMBDA te :
    Then(expect(te.i, ";"), LAMBDA semi :
    Ok(semi.i, TypeAlias(kw.v.i, lc, name.v.value, te.v)))))))

\* `while not at('}') and not at(';'): skip()` and then `consume(';')`
RECURSIVE parseMemberDeclaration(_)
parseMemberDeclaration(c) ==
    IF ~at(c, "}") /\ ~at(c, ";")
    THEN Then(skip(c), LAMBDA m : parseMemberDeclaration(m.i))
    ELSE Ok(consume(c, ";"), None)

\* `while not at('EOF') and not at('}'): parseMemberDeclaration()`
RECURSIVE interfaceBodyLoop(_)
interfaceBodyLoop(c) ==
    IF ~at(c, "EOF") /\ ~at(c, "}")
    THEN Then(parseMemberDeclaration(c), LAMBDA m : interfaceBodyLoop(m.i))
    ELSE Ok(c, None)

\* the `while True` loop after `extends`
RECURSIVE extendsLoop(_, _)
extendsLoop(c, extends) ==
    Then(parseTypeExpression(c), LAMBDA e :
    IF at(e.i, ",") THEN extendsLoop(e.i + 1, Append(extends, e.v))
    ELSE Ok(e.i, Append(extends, e.v)))

\* `if consume('NAME', 'extends'): while True: ...`
parseExtends(c) ==
    IF atValue(c, "NAME", "extends") THEN extendsLoop(c + 1, <<>>) ELSE Ok(c, <<>>)

parseInterfaceDefinition(c, lc) ==
    Then(expectValue(c, "NAME", "interface"), LAMBDA kw :
    Then(expect(kw.i, "NAME"), LAMBDA name :
    Then(IF at(name.i, "<") THEN parseTypeParameters(name.i) ELSE name, LAMBDA tp :
    Then(parseExtends(tp.i), LAMBDA extends :
    Then(expect(extends.i, "{"), LAMBDA open :
    Then(interfaceBodyLoop(open.i), LAMBDA body :
    Then(expect(body.i, "}"), LAMBDA close :
    Ok(close.i, InterfaceDefinition(kw.v.i, lc, name.v.value, extends.v)))))))))

parseVariableDeclaration(c, lc) ==
    IF ~(c < Len(tokens)) THEN Crash(c)
    ELSE Then(IF atValue(c, "NAME", "const") THEN next(c)
              ELSE expectValue(c, "NAME", "var"), LAMBDA kw :
         Then(expect(kw.i, "NAME"), LAMBDA name :
         Then(expect(name.i, ":"), LAMBDA colon :
         Then(parseTypeExpression(colon.i), LAMBDA type :
         Then(expect(type.i, ";"), LAMBDA semi :
         Ok(semi.i, VariableDeclaration(tok(c).i, lc, name.v.value, type.v)))))))

parseFunctionDeclaration(c, lc) ==
    Then(expectValue(c, "NAME", "function"), LAMBDA kw :
    Then(expect(kw.i, "NAME"), LAMBDA name :
    Then(parseParameters(skipTypeParameters(name.i)), LAMBDA parameters :
    Then(expect(parameters.i, ":"), LAMBDA colon :
    Then(parseTypeExpression(colon.i), LAMBDA returnType :
    Then(expect(returnType.i, ";"), LAMBDA semi :
    Ok(semi.i, FunctionDeclaration(kw.v.i, lc, name.v.value,
                                   parameters.v, returnType.v))))))))

RECURSIVE parseDeclaration(_, _)
RECURSIVE namespaceLoop(_, _, _)

\* `if at('COMMENT'): last_comment = expect('COMMENT')` of the member loop:
\* the cursor (i) and the pending comment (v) after it
memberComment(c, lc) ==
    IF at(c, "COMMENT") THEN Ok(c + 1, Some(tok(c))) ELSE Ok(c, lc)

\* the member loop of parseNamespaceDeclaration:
\*   while not at('EOF') and not at('}'):
\*       if at('COMMENT'): last_comment = expect('COMMENT')
\*       decls.append(parseDeclaration()); last_comment = None
namespaceLoop(c, lc, members) ==
    IF ~at(c, "EOF") /\ ~at(c, "}")
    THEN Then(memberComment(c, lc), LAMBDA m :
         Then(parseDeclaration(m.i, m.v), LAMBDA d :
         namespaceLoop(d.i, None, Append(members, d.v))))
    ELSE Ok(c, members)

parseNamespaceDeclaration(c, lc) ==
    IF ~(c < Len(tokens)) THEN Crash(c)
    ELSE Then(expectValue(c, "NAME", "namespace"), LAMBDA kw :
         Then(expect(kw.i, "NAME"), LAMBDA name :
         Then(expect(name.i, "{"), LAMBDA open :
         Then(namespaceLoop(open.i, lc, <<>>), LAMBDA members :
         Then(expect(members.i, "}"), LAMBDA close :
         Ok(close.i, NamespaceDeclaration(tok(c).i, lc, name.v.value, members.v)))))))

\* the dispatch of parseDeclaration, c being the cursor after consume('NAME', 'declare')
dispatchDeclaration(c, lc) ==
    IF atValue(c, "NAME", "interface") THEN parseInterfaceDefinition(c, lc)
    ELSE IF atValue(c, "NAME", "type") THEN parseTypeAlias(c, lc)
    ELSE IF atValue(c, "NAME", "var") \/ atValue(c, "NAME", "const")
    THEN parseVariableDeclaration(c, lc)
    ELSE IF atValue(c, "NAME", "namespace") THEN parseNamespaceDeclaration(c, lc)
    ELSE IF atValue(c, "NAME", "function") THEN parseFunctionDeclaration(c, lc)
    ELSE raiseAt(c)

parseDeclaration(c, lc) == dispatchDeclaration(consumeValue(c, "NAME", "declare"), lc)

----------------------------------------------------------------------------
(* parse(s) as a state machine: lex, then one step per iteration of the    *)
(* top-level `while True` loop.                                            *)

\* a comment run that retains its first comment instead of its last
RECURSIVE absorbKeepingFirst(_, _)
absorbKeepingFirst(c, lc) ==
    IF ~(c < Len(tokens)) THEN Crash(c)
    ELSE IF tok(c).type = "COMMENT"
    THEN absorbKeepingFirst(c + 1, IF lc = None THEN Some(tok(c)) ELSE lc)
    ELSE Ok(c, lc)

\* `while not at('EOF') and tokens[i].type == 'COMMENT': last_comment = tokens[i]; i += 1`
\* the cursor (i) and the pending comment (v) after the run
RECURSIVE absorbComments(_, _)
absorbComments(c, lc) ==
    IF ~(c < Len(tokens)) THEN Crash(c)
    ELSE IF tok(c).type = "COMMENT" THEN absorbComments(c + 1, Some(tok(c)))
    ELSE Ok(c, lc)

\* the rest of an iteration after the comment run: `if at('EOF'): break` or
\* `decls.append(parseDeclaration())`
topDeclaration(run) ==
    IF run.k # "ok" THEN [run |-> run, end |-> FALSE, decl |-> run]
    ELSE IF at(run.i, "EOF") THEN [run |-> run, end |-> TRUE, decl |-> run]
    ELSE [run |-> run, end |-> FALSE, decl |-> parseDeclaration(run.i, run.v)]

\* one iteration of the top-level loop from the current state
topStep == topDeclaration(absorbComments(i, last_comment))

\* `tokens = lex(s)` returns
Lex ==
    /\ pc = "lex"
    /\ \E r \in {lex(s)} :
        /\ r.ok
        /\ tokens' = r.tokens
    /\ pc' = "parse"
    /\ UNCHANGED <<s, i, decls, last_comment, line>>

\* `tokens = lex(s)` raises "Unrecognized token ... on line N"
LexError ==
    /\ pc = "lex"
    /\ \E r \in {lex(s)} :
        /\ ~r.ok
        /\ line' = r.line
    /\ pc' = "LexError"
    /\ UNCHANGED <<s, tokens, i, decls, last_comment>>

\* a loop iteration that parses one declaration
ParseDeclaration ==
    /\ pc = "parse"
    /\ \E step \in {topStep} :
        /\ ~step.end
        /\ step.decl.k = "ok"
        /\ decls' = Append(decls, step.decl.v)
        /\ i' = step.decl.i
    /\ last_comment' = None
    /\ UNCHANGED <<s, pc, tokens, line>>

\* the iteration that finds EOF: `break; return decls`
ParseReturn ==
    /\ pc = "parse"
    /\ \E step \in {topStep} :
        /\ step.end
        /\ i' = step.run.i
        /\ last_comment' = step.run.v
    /\ pc' = "done"
    /\ UNCHANGED <<s, tokens, decls, line>>

\* an iteration in which a diagnosed Exception is raised
ParseError ==
    /\ pc = "parse"
    /\ \E step \in {topStep} :
        /\ step.decl.k = "error"
        /\ line' = step.decl.line
        /\ i' = step.decl.i
        /\ last_comment' = step.run.v
    /\ pc' = "ParseError"
    /\ UNCHANGED <<s, tokens, decls>>

\* an iteration that dies of an IndexError reading tokens[i]
ParseIndexError ==
    /\ pc = "parse"
    /\ \E step \in {topStep} :
        /\ step.decl.k = "crash"
        /\ i' = step.decl.i
    /\ pc' = "IndexError"
    /\ UNCHANGED <<s, tokens, decls, last_comment, line>>

Next == Lex \/ LexError \/ ParseDeclaration \/ ParseReturn \/ ParseError \/ ParseIndexError

Start(inputs) ==
    /\ s \in inputs
    /\ pc = "lex"
    /\ tokens = <<>>
    /\ i = 0
    /\ decls = <<>>
    /\ last_comment = None
    /\ line = 0

----------------------------------------------------------------------------
(* The inputs the checks run parse on. *)

\* longest text of LexChunks pieces, longest chain of operands, longest
\* parameter list, longest interface body (in tokens), longest run of
\* comments, longest list of namespace members and comments
MaxLexLen == 3

MaxOperands == 3

MaxParams == 2

MaxBody == 4

MaxRun == 2

MaxMembers == 3

\* all concatenations of at most n pieces
RECURSIVE Texts(_, _)
Texts(pieces, n) ==
    IF n = 0 THEN {""}
    ELSE Texts(pieces, n - 1) \cup {x \o y : x \in Texts(pieces, n - 1), y \in pieces}

\* every prefix of a text: the input cut short at any offset
Prefixes(text) == {SubSeq(text, 1, n) : n \in 0..Len(text)}

LexChunks ==
    {"a", "0", " ", "\n", "/*", "/**", "*/", "//", "\"", "\\", ".", "=", "@"}

LexInputs == Texts(LexChunks, MaxLexLen)

\* operand (op operand)* with at most n operands
RECURSIVE Chains(_, _)
Chains(operands, n) ==
    IF n = 1 THEN operands
    ELSE Chains(operands, n - 1)
         \cup {x \o op \o y : x \in Chains(operands, n - 1), op \in {" | ", " & "},
                              y \in operands}

PlainOperands == {"A", "B", "C", "Union", "A[]", "B[K]"}

OtherOperands ==
    {"A", "B", "C", "Union", "Intersect", "A[]", "B[]", "A[K]", "(A | B)", "(B | C)",
     "(A & B)", "(A | B)[]", "(A)", "A<B, C>", "typeof X", "keyof X", "typeof X.M",
     "keyof X.M", "'s'", "[A, B]", "(a: A) => B", "{ a: A }", "{ a", "", "@",
     "() => A", "((A) | B)", "(a: { b: B }) => C", "(A", "(a: A)"}

TypeInputs ==
    {"type T = " \o e \o ";" :
        e \in Chains(PlainOperands, MaxOperands) \cup Chains(OtherOperands, 2)}

\* doc comments, a line comment and a plain block comment
CommentPieces == {"/** a */ ", "/** b */ ", "// c\n", "/* d */ "}

CommentRuns == Texts(CommentPieces, MaxRun)

\* one declaration of each kind, with and without `declare`
DeclarationTexts ==
    {"interface I { }", "type T = A;", "const x: A;", "var y: B;", "namespace N { }",
     "function f(): A;", "declare const z: A;", "declare function g(): B;"}

SecondUnits ==
    {"", "/** z */", "type U = B;", "namespace M { }", "/** z */ type U = B;",
     "// c\ntype U = B;", "/** z */ declare namespace M { }", "/* d */ namespace M { }"}

\* a comment run and a declaration, followed by a second unit
CommentInputs ==
    {r \o d \o " " \o u : r \in CommentRuns, d \in DeclarationTexts, u \in SecondUnits}

MemberPieces == {"/** a */ ", "/** b */ ", "const x: A; ", "type T = B; "}

\* sequences of doc comments and declarations, all accepted at top level
MemberTexts == Texts(MemberPieces, MaxMembers)

\* the sequence at top level, and then again as the body of a namespace
NamespacePair(x) == x \o "namespace N { " \o x \o "}"

NamespaceInputs ==
    MemberTexts \cup {NamespacePair(x) : x \in MemberTexts}
    \cup {"/** d */ namespace A { const x: number; }"}

ParameterTexts == {"x: A", "...x: A", "x?: A", "...x?: A", "...r: B[]"}

\* parameter lists of at most n parameters
RECURSIVE ParameterLists(_)
ParameterLists(n) ==
    IF n = 0 THEN {""}
    ELSE IF n = 1 THEN {""} \cup ParameterTexts
    ELSE ParameterLists(n - 1)
         \cup {l \o ", " \o p : l \in ParameterLists(n - 1) \ {""}, p \in ParameterTexts}

FunctionInputs ==
    {h \o "(" \o l \o "): " \o r \o ";" :
        h \in {"function f", "function f<T>"}, l \in ParameterLists(MaxParams),
        r \in {"R", "R[]"}}
    \cup {"function f(x: number, ...rest: string[]): void;"}

BodyAtoms == {"a", ";"}

Brackets == {<<"(", ")">>, <<"{", "}">>, <<"[", "]">>, <<"<", ">">>}

\* token sequences of at most n tokens whose brackets are properly nested
RECURSIVE Balanced(_)
Balanced(n) ==
    IF n = 0 THEN {""}
    ELSE Balanced(n - 1)
         \cup {a \o " " \o x : a \in BodyAtoms, x \in Balanced(n - 1)}
         \cup (IF n < 2 THEN {}
               ELSE UNION {{b[1] \o " " \o x \o b[2] \o " " \o y :
                              b \in Brackets, x \in Balanced(k), y \in Balanced(n - 2 - k)} :
                           k \in 0..(n - 2)})

InterfaceHeaders ==
    {"interface I", "interface I<T>", "interface I extends P",
     "interface I extends P, Q<R>", "interface I<T extends U<V>> extends P<T>, Q, R"}

InterfaceBodies == {"", "m(a: A): { b: B; }; ", "x: A<B<C>>; y: D[]; ", "f(): (a: A) => B "}

InterfaceInputs ==
    {h \o " { " \o b \o "} const x: A;" :
        h \in {"interface I", "interface I<T> extends P, Q<R>"}, b \in Balanced(MaxBody)}
    \cup {h \o " { " \o b \o "} const x: A;" : h \in InterfaceHeaders, b \in InterfaceBodies}
    \cup {"interface Foo extends Bar, Baz<Qux> { anything(): here; }"}

\* programs cut short at every offset
BasePrograms ==
    {"interface A<T> {\n x(a: B): C;\n}\n", "type T = { a: A };",
     "namespace N {\nconst x: [A, 'b'];\n}", "function f(x: \"s\",\n y: A): B;",
     "foo x;", "\n\nconst x: A\n;@"}

PrefixInputs == UNION {Prefixes(p) : p \in BasePrograms}

\* every symbol of the catalog followed by every other
SymbolInputs == {a \o b : a \in SYMBOLS, b \in SYMBOLS \cup {"", " ", "a"}}

Inputs ==
    LexInputs \cup TypeInputs \cup CommentInputs \cup NamespaceInputs
    \cup FunctionInputs \cup InterfaceInputs \cup PrefixInputs \cup SymbolInputs

Init == Start(Inputs)

Spec == Init /\ [][Next]_vars

----------------------------------------------------------------------------
(* Vocabulary of the properties: they read the final state of a run (the   *)
(* tokens, the declarations, the outcome) and never call the parser.       *)

Failures == {"LexError", "ParseError", "IndexError"}

\* the number of lines of the file
NumLines == count(s, Len(s)) + 1

\* 1-based index in tokens of the token at source offset pos
IndexOf(pos) == CHOOSE k \in 1..Len(tokens) : tokens[k].i = pos

IsKeyword(t, word) == t.type = "NAME" /\ t.value = word

\* a type expression written as text, e.g. Union(ARRAY(A), B)
RECURSIVE Shape(_)
RECURSIVE ShapeList(_)
Shape(te) ==
    IF te.args = None THEN te.name
    ELSE te.name \o "(" \o ShapeList(te.args[1]) \o ")"

ShapeList(l) ==
    IF l = <<>> THEN ""
    ELSE IF Len(l) = 1 THEN Shape(l[1])
    ELSE Shape(l[1]) \o ", " \o ShapeList(Tail(l))

\* the type expressions a declaration holds, members of a namespace included
RECURSIVE TypesOf(_)
TypesOf(d) ==
    CASE d.kind \in {"TypeAlias", "VariableDeclaration"} -> {d.type}
      [] d.kind = "FunctionDeclaration" ->
            {d.returnType} \cup {d.parameters[k].type : k \in 1..Len(d.parameters)}
      [] d.kind = "InterfaceDefinition" -> {d.extends[k] : k \in 1..Len(d.extends)}
      [] d.kind = "NamespaceDeclaration" ->
            UNION {TypesOf(d.declarations[k]) : k \in 1..Len(d.declarations)}

\* a type expression and every node below it
RECURSIVE Nodes(_)
Nodes(te) ==
    {te} \cup (IF te.args = None THEN {}
               ELSE UNION {Nodes(te.args[1][k]) : k \in 1..Len(te.args[1])})

\* every node of every type expression the run has returned so far
AllNodes == UNION {UNION {Nodes(t) : t \in TypesOf(decls[k])} : k \in 1..Len(decls)}

\* the run returned exactly one declaration, `type NAME = e ;`
IsTypeAlias ==
    /\ pc = "done"
    /\ Len(decls) = 1
    /\ decls[1].kind = "TypeAlias"
    /\ tokens[3].type = "="

\* the tokens of e in `type NAME = e ;`
ExprTokens == SubSeq(tokens, 4, Len(tokens) - 2)

IsName(t) == t.type = "NAME" /\ t.value \notin {"typeof", "keyof"}

Atom(t) == TypeExpression(t.i, t.value, None)

Tag(t) == IF t.type = "|" THEN "Union" ELSE "Intersect"

\* the postfix-level operand that starts with the name ts[k - 1], te being what
\* is read up to ts[k]: every following `[]` wraps it in an ARRAY
RECURSIVE ArrayOf(_, _, _)
ArrayOf(ts, k, te) ==
    IF k + 1 <= Len(ts) /\ ts[k].type = "[" /\ ts[k + 1].type = "]"
    THEN ArrayOf(ts, k + 2, TypeExpression(te.i, "ARRAY", Some(<<te>>)))
    ELSE [k |-> k, te |-> te]

\* the operand at ts[k] and the index of the token after it
OperandAt(ts, k) == ArrayOf(ts, k + 1, Atom(ts[k]))

\* ts[k..] is an unparenthesized chain: operand (op operand)*, op in ops
RECURSIVE IsChain(_, _, _)
IsChain(ts, k, ops) ==
    /\ k <= Len(ts)
    /\ IsName(ts[k])
    /\ \/ OperandAt(ts, k).k > Len(ts)
       \/ /\ ts[OperandAt(ts, k).k].type \in ops
          /\ IsChain(ts, OperandAt(ts, k).k + 1, ops)

HasOperator(ts, op) == \E k \in 1..Len(ts) : ts[k].type = op

\* the chain ts[k..] grouped to the right: the right operand of the first
\* operator is the whole rest of the chain
RECURSIVE FoldRight(_, _)
FoldRight(ts, k) ==
    IF OperandAt(ts, k).k > Len(ts) THEN OperandAt(ts, k).te
    ELSE combine(OperandAt(ts, k).te, FoldRight(ts, OperandAt(ts, k).k + 1),
                 Tag(ts[OperandAt(ts, k).k]))

\* the chain grouped to the left: acc is the combination of the operands
\* before the operator ts[k]
RECURSIVE FoldLeft(_, _, _)
FoldLeft(ts, k, acc) ==
    IF k > Len(ts) THEN acc
    ELSE FoldLeft(ts, OperandAt(ts, k + 1).k,
                  combine(acc, OperandAt(ts, k + 1).te, Tag(ts[k])))

NotParen(t) == t.type \notin {"(", ")"}

----------------------------------------------------------------------------
(* C1 *)

\* the tokens hold nothing to declare
OnlyComments == \A k \in 1..Len(tokens) : tokens[k].type \in {"COMMENT", "EOF"}

\* C1: a run that does not return a declaration list ends in a diagnosed
\* LexError or ParseError whose line lies in 1..NumLines; no run dies of an
\* undiagnosed IndexError, and no run silently returns an empty list for a
\* file that holds more than comments.
C1_EveryFailureDiagnosed ==
    /\ pc # "IndexError"
    /\ pc \in {"LexError", "ParseError"} => line \in 1..NumLines
    /\ (pc = "done" /\ decls = <<>>) => OnlyComments

----------------------------------------------------------------------------
(* C2 *)

\* ts is name (op name)* with at least one operator, every op being `op`
IsNameChain(ts, op) ==
    /\ Len(ts) >= 3
    /\ Len(ts) % 2 = 1
    /\ \A k \in 1..Len(ts) : IF k % 2 = 1 THEN IsName(ts[k]) ELSE ts[k].type = op

\* the operands of a name chain, in source order
NameChainOperands(ts) == [k \in 1..((Len(ts) + 1) \div 2) |-> Atom(ts[2 * k - 1])]

\* the tokens of e without its parentheses
Unparenthesized == SelectSeq(ExprTokens, NotParen)

\* C2: no Union node has a direct child named Union, no Intersect node one
\* named Intersect; and a chain of n >= 2 operands joined only by `|` (only
\* by `&`), with or without parentheses around sub-chains, returns one Union
\* (Intersect) node whose args are exactly the n operands in source order.
C2_FlatWithEveryOperand ==
    /\ \A n \in AllNodes :
          (n.name \in {"Union", "Intersect"} /\ n.args # None)
              => \A k \in 1..Len(n.args[1]) : n.args[1][k].name # n.name
    /\ \A op \in {"|", "&"} :
          (IsTypeAlias /\ IsNameChain(Unparenthesized, op))
              => decls[1].type = TypeExpression(Unparenthesized[1].i, Tag([type |-> op]),
                                                Some(NameChainOperands(Unparenthesized)))

----------------------------------------------------------------------------
(* C3 *)

\* the run returned the alias of an unparenthesized chain that mixes | and &
IsMixedChain ==
    /\ IsTypeAlias
    /\ IsChain(ExprTokens, 1, {"|", "&"})
    /\ HasOperator(ExprTokens, "|")
    /\ HasOperator(ExprTokens, "&")

\* C3 as the specification states it: a mixed chain is grouped to the left,
\* each operator taking only the next postfix-level operand as its right
\* operand, so `A & B | C` is Union(Intersect(A, B), C).
C3_LeftToRight ==
    IsMixedChain =>
        decls[1].type = FoldLeft(ExprTokens, OperandAt(ExprTokens, 1).k,
                                 OperandAt(ExprTokens, 1).te)

\* C3 as the code has it: | and & have equal precedence and a mixed chain is
\* grouped to the right: the left operand of each operator is the single
\* postfix-level operand before it, and its right operand is the whole rest
\* of the chain, so `A & B | C` is Intersect(A, Union(B, C)).
C3_RightNested == IsMixedChain => decls[1].type = FoldRight(ExprTokens, 1)

C3_Witness ==
    /\ s = "type T = A & B | C;"
    /\ IsMixedChain
    /\ Shape(decls[1].type) = "Intersect(A, Union(B, C))"

----------------------------------------------------------------------------
(* C4 *)

\* the type of the alias the run returned for the source text
AliasShape(text, shape) == (s = text /\ pc = "done") => Shape(decls[1].type) = shape

\* C4: a postfix [] or [Index] applies to the operand right before it and
\* binds before a neighbouring | or &: the three examples parse as stated,
\* every ARRAY node has exactly one child and every SUBSCRIPT node two, and
\* where nothing is parenthesized the base of an ARRAY or SUBSCRIPT is never
\* a combination made by | or &.
C4_PostfixBindsFirst ==
    /\ AliasShape("type T = A[] | B;", "Union(ARRAY(A), B)")
    /\ AliasShape("type T = A | B[];", "Union(A, ARRAY(B))")
    /\ AliasShape("type T = A[K] & B;", "Intersect(SUBSCRIPT(A, K), B)")
    /\ \A n \in AllNodes :
          /\ n.name = "ARRAY" => (n.args # None /\ Len(n.args[1]) = 1)
          /\ n.name = "SUBSCRIPT" => (n.args # None /\ Len(n.args[1]) = 2)
          /\ (n.name \in {"ARRAY", "SUBSCRIPT"} /\ ~HasOperator(tokens, "("))
                => ~(n.args[1][1].name \in {"Union", "Intersect"}
                     /\ n.args[1][1].args # None)

C4_Witness ==
    /\ s = "type T = A | B[];"
    /\ pc = "done"
    /\ Shape(decls[1].type) = "Union(A, ARRAY(B))"

----------------------------------------------------------------------------
(* C5 *)

\* the run returned the alias of `typeof X`, `keyof X` or either with `.M`
IsTypeQuery ==
    /\ IsTypeAlias
    /\ Len(ExprTokens) \in {2, 4}
    /\ ExprTokens[1].type = "NAME"
    /\ ExprTokens[1].value \in {"typeof", "keyof"}
    /\ ExprTokens[2].type = "NAME"
    /\ Len(ExprTokens) = 4 => (ExprTokens[3].type = "." /\ ExprTokens[4].type = "NAME")

\* C5: `typeof X` is the atomic node named typeof(X), `keyof X` the one
\* named keyof(X), with a following `.M` the name is typeof(X).M or
\* keyof(X).M, and the node's position is that of the keyword.
C5_TypeQueryName ==
    IsTypeQuery =>
        decls[1].type =
            TypeExpression(ExprTokens[1].i,
                           ExprTokens[1].value \o "(" \o ExprTokens[2].value \o ")"
                               \o (IF Len(ExprTokens) = 4
                                   THEN "." \o ExprTokens[4].value ELSE ""),
                           None)

----------------------------------------------------------------------------
(* C6 *)

\* the index of the first token of a top-level declaration, its `declare` included
FirstToken(d) ==
    IF IndexOf(d.i) > 1 /\ IsKeyword(tokens[IndexOf(d.i) - 1], "declare")
    THEN IndexOf(d.i) - 1 ELSE IndexOf(d.i)

\* the COMMENT token right before the declaration, if there is one
CommentBefore(d) ==
    IF FirstToken(d) > 1 /\ tokens[FirstToken(d) - 1].type = "COMMENT"
    THEN Some(tokens[FirstToken(d) - 1]) ELSE None

\* the token was lexed from a /** ... */ comment
IsDocComment(t) == startswith(s, "/**", t.i) /\ ~startswith(s, "/**/", t.i)

\* C6: the comment of a top-level declaration of any kind is the last
\* COMMENT token of the run right before it (before its `declare`), none
\* when no doc comment is right before it; the pending comment is cleared
\* after each declaration; only /** */ comments are COMMENT tokens, so //
\* and /* */ comments are attached to nothing.
C6_TopLevelComment ==
    /\ \A k \in 1..Len(decls) : decls[k].comment = CommentBefore(decls[k])
    /\ pc = "parse" => last_comment = None
    /\ \A k \in 1..Len(tokens) : tokens[k].type = "COMMENT" => IsDocComment(tokens[k])

C6_Witness ==
    /\ pc = "done"
    /\ Len(decls) = 2
    /\ tokens[1].type = "COMMENT"
    /\ tokens[2].type = "COMMENT"
    /\ decls[1].comment = Some(tokens[2])
    /\ decls[2].comment = None

----------------------------------------------------------------------------
(* C7 *)

\* what the comparison of two declaration lists looks at
Summary(d) == [kind |-> d.kind, name |-> d.name,
               comment |-> IF d.comment = None THEN None ELSE Some(d.comment[1].value)]

Summaries(ds) == [k \in 1..Len(ds) |-> Summary(ds[k])]

\* C7: the member loop of a namespace behaves as the top-level loop does:
\* a sequence of doc comments and declarations that is accepted at top level
\* is accepted as the body of a namespace, with the same comments attached
\* to the same declarations.
C7_MembersLikeTopLevel ==
    \A x \in MemberTexts :
        /\ s = x => pc \notin Failures
        /\ s = NamespacePair(x) =>
              /\ pc \notin Failures
              /\ pc = "done" =>
                    /\ decls[Len(decls)].kind = "NamespaceDeclaration"
                    /\ Summaries(decls[Len(decls)].declarations)
                          = Summaries(SubSeq(decls, 1, Len(decls) - 1))

----------------------------------------------------------------------------
(* C8 *)

\* C8: when lex succeeds the token list holds exactly one EOF token, the
\* last one, at offset len(s); the offsets of the tokens before it are
\* strictly increasing and below len(s).
C8_TokenPositions ==
    tokens # <<>> =>
        /\ tokens[Len(tokens)] = [i |-> Len(s), type |-> "EOF", value |-> ""]
        /\ \A k \in 1..(Len(tokens) - 1) :
              /\ tokens[k].type # "EOF"
              /\ tokens[k].i >= 0
              /\ tokens[k].i < tokens[k + 1].i

\* the input ends inside a string literal that is never closed
C8_Witness ==
    /\ Len(tokens) = 3
    /\ tokens[2].type = "STRING"
    /\ tokens[2].value = "\""
    /\ tokens[2].i = Len(s) - 1

----------------------------------------------------------------------------
(* C9 *)

\* the run returned one function declaration whose parameter and return
\* types are names with [] suffixes
IsPlainFunction ==
    /\ pc = "done"
    /\ Len(decls) = 1
    /\ decls[1].kind = "FunctionDeclaration"
    /\ \A k \in 1..Len(tokens) :
          tokens[k].type \in {"NAME", "(", ")", "<", ">", "...", "?", ":", ",", "[", "]",
                              ";", "EOF"}
    /\ Cardinality({k \in 1..Len(tokens) : tokens[k].type = "("}) = 1

\* the index of the name of the parameter that starts at tokens[k]
NameIndex(k) == IF tokens[k].type = "..." THEN k + 1 ELSE k

\* the index of the `:` of the parameter that starts at tokens[k]
ColonIndex(k) == IF tokens[NameIndex(k) + 1].type = "?" THEN NameIndex(k) + 2
                 ELSE NameIndex(k) + 1

\* the parameter is what is written at its position
ParameterAsWritten(p) ==
    /\ p.isVariadic = (tokens[IndexOf(p.i)].type = "...")
    /\ p.name = tokens[NameIndex(IndexOf(p.i))].value
    /\ p.isOptional = (tokens[NameIndex(IndexOf(p.i)) + 1].type = "?")
    /\ tokens[ColonIndex(IndexOf(p.i))].type = ":"
    /\ p.type = OperandAt(tokens, ColonIndex(IndexOf(p.i)) + 1).te

\* the index of the `)` that closes the parameter list
CloseIndex == CHOOSE k \in 1..Len(tokens) : tokens[k].type = ")"

\* C9: a function declaration holds its parameters in source order, one for
\* each written parameter, and the parsed return type; isVariadic is true
\* exactly when `...` precedes the name and isOptional exactly when `?`
\* follows it, independently of each other.
C9_FunctionDeclaration ==
    /\ IsPlainFunction =>
          /\ IsKeyword(tokens[IndexOf(decls[1].i)], "function")
          /\ decls[1].name = tokens[IndexOf(decls[1].i) + 1].value
          /\ \A k \in 1..Len(decls[1].parameters) :
                ParameterAsWritten(decls[1].parameters[k])
          /\ \A k \in 1..(Len(decls[1].parameters) - 1) :
                decls[1].parameters[k].i < decls[1].parameters[k + 1].i
          /\ Len(decls[1].parameters)
                = Cardinality({k \in 1..CloseIndex : tokens[k].type = ":"})
          /\ tokens[CloseIndex + 1].type = ":"
          /\ decls[1].returnType = OperandAt(tokens, CloseIndex + 2).te
          /\ OperandAt(tokens, CloseIndex + 2).k = Len(tokens) - 1
    /\ (s = "function f(x: number, ...rest: string[]): void;" /\ pc = "done") =>
          /\ Len(decls) = 1
          /\ Len(decls[1].parameters) = 2
          /\ decls[1].parameters[1].name = "x"
          /\ ~decls[1].parameters[1].isVariadic
          /\ ~decls[1].parameters[1].isOptional
          /\ Shape(decls[1].parameters[1].type) = "number"
          /\ decls[1].parameters[2].name = "rest"
          /\ decls[1].parameters[2].isVariadic
          /\ Shape(decls[1].parameters[2].type) = "ARRAY(string)"
          /\ Shape(decls[1].returnType) = "void"

\* both flags set on one parameter and neither on the next
C9_Witness ==
    /\ IsPlainFunction
    /\ Len(decls[1].parameters) = 2
    /\ decls[1].parameters[1].isVariadic
    /\ decls[1].parameters[1].isOptional
    /\ ~decls[1].parameters[2].isVariadic
    /\ ~decls[1].parameters[2].isOptional

----------------------------------------------------------------------------
(* C10 *)

\* the index of the `{` that opens the body of the interface at tokens[1]
OpenIndex == CHOOSE k \in 1..Len(tokens) :
                 tokens[k].type = "{" /\ \A j \in 1..(k - 1) : tokens[j].type # "{"

\* the bracket depth after ts[1..k], every opener counting +1 and every closer -1
RECURSIVE Depth(_, _)
Depth(ts, k) ==
    IF k = 0 THEN 0
    ELSE Depth(ts, k - 1)
         + (IF ts[k].type \in {"(", "{", "[", "<"} THEN 1
            ELSE IF ts[k].type \in {")", "}", "]", ">"} THEN -1 ELSE 0)

BalancedTokens(ts) == Depth(ts, Len(ts)) = 0 /\ \A k \in 1..Len(ts) : Depth(ts, k) >= 0

\* the input is `interface NAME header { body } const x: A;` with a balanced body
IsInterfaceInput ==
    /\ Len(tokens) >= 10
    /\ IsKeyword(tokens[1], "interface")
    /\ tokens[2].type = "NAME"
    /\ \E k \in 1..Len(tokens) : tokens[k].type = "{"
    /\ Len(tokens) - 6 > OpenIndex
    /\ tokens[Len(tokens) - 6].type = "}"
    /\ IsKeyword(tokens[Len(tokens) - 5], "const")
    /\ IsKeyword(tokens[Len(tokens) - 4], "x")
    /\ tokens[Len(tokens) - 3].type = ":"
    /\ IsKeyword(tokens[Len(tokens) - 2], "A")
    /\ tokens[Len(tokens) - 1].type = ";"
    /\ BalancedTokens(SubSeq(tokens, 3, OpenIndex - 1))
    /\ BalancedTokens(SubSeq(tokens, OpenIndex + 1, Len(tokens) - 7))

\* the names extended in the header tokens[k..OpenIndex - 1]: the names at
\* angle-bracket depth 0 after the `extends` at depth 0
RECURSIVE ExtendsFrom(_, _, _)
ExtendsFrom(k, depth, after) ==
    IF k >= OpenIndex THEN <<>>
    ELSE IF tokens[k].type = "<" THEN ExtendsFrom(k + 1, depth + 1, after)
    ELSE IF tokens[k].type = ">" THEN ExtendsFrom(k + 1, depth - 1, after)
    ELSE IF depth = 0 /\ IsKeyword(tokens[k], "extends") THEN ExtendsFrom(k + 1, depth, TRUE)
    ELSE IF depth = 0 /\ after /\ tokens[k].type = "NAME"
    THEN <<Atom(tokens[k])>> \o ExtendsFrom(k + 1, depth, after)
    ELSE ExtendsFrom(k + 1, depth, after)

\* C10: an interface with a balanced body parses, whatever the body holds,
\* to an InterfaceDefinition with its name and one extends entry for each
\* extended type in source order, generic arguments dropped; the cursor is
\* then right after the closing brace of the interface, and the declaration
\* that follows is parsed.
C10_InterfaceDefinition ==
    /\ IsInterfaceInput =>
          /\ pc \notin Failures
          /\ decls # <<>> =>
                decls[1] = InterfaceDefinition(tokens[1].i, None, tokens[2].value,
                                               ExtendsFrom(3, 0, FALSE))
          /\ (pc = "parse" /\ Len(decls) = 1) => i = Len(tokens) - 6
          /\ pc = "done" =>
                /\ Len(decls) = 2
                /\ decls[2].kind = "VariableDeclaration"
                /\ decls[2].name = "x"
    /\ (s = "interface Foo extends Bar, Baz<Qux> { anything(): here; }" /\ pc = "done") =>
          /\ Len(decls) = 1
          /\ decls[1].kind = "InterfaceDefinition"
          /\ decls[1].name = "Foo"
          /\ Len(decls[1].extends) = 2
          /\ Shape(decls[1].extends[1]) = "Bar"
          /\ Shape(decls[1].extends[2]) = "Baz"

\* two extended types, one with generic arguments, and a body with nested braces
C10_Witness ==
    /\ IsInterfaceInput
    /\ pc = "done"
    /\ Len(decls[1].extends) = 2
    /\ HasOperator(SubSeq(tokens, OpenIndex + 1, Len(tokens) - 7), "{")
    /\ HasOperator(SubSeq(tokens, 3, OpenIndex - 1), "<")

----------------------------------------------------------------------------
(* C11 *)

\* the entries of the symbol catalog that are prefixes of the input at offset p
SymbolsAt(p) == {y \in SYMBOLS : startswith(s, y, p)}

\* C11: every symbol token is the longest entry of the symbol catalog that
\* is a prefix of the input at the token's offset, so `=>`, `...`, `||` and
\* `&&` are never split, and the token's kind equals its text.
C11_LongestSymbol ==
    \A k \in 1..Len(tokens) :
        tokens[k].type \in SYMBOLS =>
            /\ tokens[k].value = tokens[k].type
            /\ tokens[k].type \in SymbolsAt(tokens[k].i)
            /\ \A y \in SymbolsAt(tokens[k].i) : Len(y) <= Len(tokens[k].type)

\* `=>...` is lexed as the two tokens `=>` and `...`
C11_Witness ==
    /\ s = "=>..."
    /\ Len(tokens) = 3
    /\ tokens[1].type = "=>"
    /\ tokens[2].type = "..."
    /\ tokens[2].i = 2

----------------------------------------------------------------------------
(* C12 *)

\* the input starts `type NAME =`, so the type expression starts at tokens[4]
IsAliasInput ==
    /\ Len(tokens) >= 5
    /\ IsKeyword(tokens[1], "type")
    /\ tokens[2].type = "NAME"
    /\ tokens[3].type = "="

\* the indexes at which the bracket group opened at tokens[4] is closed
GroupCloses ==
    {j \in 5..Len(tokens) : Depth(SubSeq(tokens, 4, Len(tokens)), j - 3) = 0}

\* the index of the token that closes the group opened at tokens[4]
GroupClose == CHOOSE j \in GroupCloses : \A m \in GroupCloses : j <= m

\* tokens[4] is `(` and the token right after the group it opens is `=>`
ArrowAfterGroup ==
    /\ tokens[4].type = "("
    /\ GroupCloses # {}
    /\ tokens[GroupClose + 1].type = "=>"

\* `type NAME = ( T ) ;` with T an unparenthesized chain
IsGroupedChain ==
    /\ IsTypeAlias
    /\ tokens[4].type = "("
    /\ GroupCloses # {}
    /\ GroupClose = Len(tokens) - 2
    /\ IsChain(SubSeq(tokens, 5, Len(tokens) - 3), 1, {"|", "&"})

\* `type NAME = ( ... ) => R ;` with R an unparenthesized chain
IsFunctionType ==
    /\ IsTypeAlias
    /\ ArrowAfterGroup
    /\ IsChain(SubSeq(tokens, GroupClose + 2, Len(tokens) - 2), 1, {"|", "&"})

\* C12: the lookahead atFunctionType leaves the cursor where it was, whatever
\* it answers; it answers true exactly when the cursor is on `(` and the
\* token right after the group closed by the skip is `=>`, and the primary
\* is then Function(UnknownArgs) with the return type as its only child;
\* when it answers false on `(`, `( T )` yields the TypeExpression of T.
C12_FunctionTypeLookahead ==
    /\ \A k \in 0..Len(tokens) : atFunctionType(k).k = "ok" /\ atFunctionType(k).i = k
    /\ IsAliasInput => atFunctionType(3).v = ArrowAfterGroup
    /\ IsFunctionType =>
          decls[1].type =
              TypeExpression(tokens[4].i, "Function(UnknownArgs)",
                             Some(<<FoldRight(SubSeq(tokens, GroupClose + 2,
                                                     Len(tokens) - 2), 1)>>))
    /\ IsGroupedChain =>
          decls[1].type = FoldRight(SubSeq(tokens, 5, Len(tokens) - 3), 1)

\* a function type whose return type is a chain
C12_Witness ==
    /\ s = "type T = (a: A) => B | A;"
    /\ IsFunctionType
    /\ Shape(decls[1].type) = "Function(UnknownArgs)(Union(B, A))"

----------------------------------------------------------------------------
(* C13 *)

\* a declaration and, for a namespace, every declaration nested in it
RECURSIVE DeclarationsOf(_)
DeclarationsOf(d) ==
    {d} \cup (IF d.kind = "NamespaceDeclaration"
              THEN UNION {DeclarationsOf(d.declarations[k]) : k \in 1..Len(d.declarations)}
              ELSE {})

\* every declaration the run has returned so far, namespace members included
AllDeclarations == UNION {DeclarationsOf(decls[k]) : k \in 1..Len(decls)}

\* C13: a doc comment is attached to at most one declaration, and a
\* declaration with no doc comment right before it has none attached, the
\* first member of a commented namespace included: in
\* `/** d */ namespace A { const x: number; }` d is attached to A only.
C13_CommentOnOneDeclaration ==
    /\ \A d \in AllDeclarations : d.comment = CommentBefore(d)
    /\ \A d \in AllDeclarations : \A e \in AllDeclarations :
          (d.i # e.i /\ d.comment # None) => d.comment # e.comment

----------------------------------------------------------------------------
(* C14 *)

\* C14: every operand written in a chain of | and & is kept, whatever its
\* name: each name of the chain is an atomic node of the result, at its
\* position, and `Union | B` is a Union node with 2 args.
C14_EveryOperandKept ==
    /\ (IsTypeAlias /\ IsChain(ExprTokens, 1, {"|", "&"})) =>
          \A k \in 1..Len(ExprTokens) :
              ExprTokens[k].type = "NAME" =>
                  Atom(ExprTokens[k]) \in Nodes(decls[1].type)
    /\ (s = "type T = Union | B;" /\ pc = "done") =>
          /\ decls[1].type.name = "Union"
          /\ decls[1].type.args # None
          /\ Len(decls[1].type.args[1]) = 2

====
